---- MODULE Spec2Model ----
(***************************************************************************)
(* Model of scjs' ConManager (src/index.js): the generic request executor  *)
(* (_request / get / post / put / delete) with its expiry detection and    *)
(* single retry, and the session manager (login with implicit logout).     *)
(*                                                                         *)
(* JavaScript runs the handlers of one I/O event, together with all the    *)
(* promise continuations they trigger, to completion before the next I/O   *)
(* event is handled.  One action of the model is therefore one such run:   *)
(* it starts at a call by the user or at the arrival of a response (or of  *)
(* a transport error) and ends when the next transport request has been    *)
(* issued or the user's call has settled.                                  *)
(***************************************************************************)
EXTENDS Integers, Sequences, FiniteSets, TLC

(***************************************************************************)
(* Bounds of the model.                                                    *)
(***************************************************************************)
MaxCalls == 2   \* calls the user makes on one ConManager instance
MaxStack == 5   \* pending promise frames of one call (nesting of re-logins)
MaxChunks == 2  \* 'data' events of an upload's source stream
MaxChunkLen == 2  \* bytes of one chunk, and of a stream of known length

(***************************************************************************)
(* JavaScript values.                                                      *)
(***************************************************************************)
Null == [ty |-> "null"]
Undefined == [ty |-> "undefined"]
Absent == [ty |-> "absent"]
Str(s) == [ty |-> "string", s |-> s]
Num(n) == [ty |-> "number", n |-> n]
\* the one-character string U+00E9, written in ASCII
EAcute == "<U+00E9>"
Obj(f) == [ty |-> "object", f |-> f]
JsError(name, message) == [ty |-> "error", name |-> name, message |-> message]
EmptyObject == Obj(<<>>)

\* ToBoolean, as applied by `if (this._token)` and `if (resp && ...)`
Truthy(v) ==
    CASE v.ty = "null" -> FALSE
      [] v.ty = "undefined" -> FALSE
      [] v.ty = "absent" -> FALSE
      [] v.ty = "string" -> v.s # ""
      [] v.ty = "number" -> v.n # 0
      [] OTHER -> TRUE

\* `name in v` for an object v
HasField(v, name) == v.ty = "object" /\ name \in DOMAIN v.f

\* v[name]: the field's value, undefined when the object lacks the field
GetField(v, name) == IF name \in DOMAIN v.f THEN v.f[name] ELSE Undefined

(***************************************************************************)
(* The constructor's defaults.                                             *)
(***************************************************************************)
TokenName == "apiToken"

(***************************************************************************)
(* What the server may answer.  A response is a status code, a status      *)
(* message and a body; the body is empty, text that is not JSON, or the    *)
(* serialisation of a JSON value.                                          *)
(***************************************************************************)
EmptyBody == [kind |-> "empty"]
TextBody(raw) == [kind |-> "text", raw |-> raw]
JsonBody(v) == [kind |-> "json", v |-> v]

ExpiryObject == Obj([httpErrorCode |-> 401, code |-> "NoUserLogon"])
OtherErrorObject == Obj([httpErrorCode |-> 401, code |-> "Forbidden"])
LoginObject1 == Obj([apiToken |-> Str("t1"), token |-> Str("o1")])
LoginObject2 == Obj([apiToken |-> Str("t2")])
NullTokenObject == Obj([apiToken |-> Null, token |-> Str("o3")])
NoTokenObject == Obj([token |-> Str("o4")])

Statuses == {200, 401, 500}
StatusMessages == {"OK", "NoUserLogon"}
Bodies ==
    {EmptyBody, TextBody("<html>"), JsonBody(ExpiryObject),
     JsonBody(OtherErrorObject), JsonBody(LoginObject1),
     JsonBody(LoginObject2), JsonBody(NullTokenObject),
     JsonBody(NoTokenObject)}
Responses == [status : Statuses, msg : StatusMessages, body : Bodies]
NoResponse == [status |-> 0, msg |-> "", body |-> EmptyBody]

TransportFailure == JsError("Error", "ECONNREFUSED")

\* what the user passes to login() and to get/post/put/delete
Credentials == {<<Str("u1"), Str("p1")>>, <<Str("u2"), Str("p2")>>}
Methods == {"GET", "POST", "PUT", "DELETE"}
NoData == Undefined
UserData == {NoData, Obj([limit |-> Num(10), name |-> Str(EAcute)])}


(***************************************************************************)
(* State.  The first five variables are the fields of the ConManager       *)
(* instance; stack holds the pending promises of the call in progress,     *)
(* innermost last; result is the outcome of the user's call.  The others   *)
(* record history: resp is the response handled by the last step, sent     *)
(* the transport request issued at the end of the last step and wire what  *)
(* that request puts on the connection, settled the                        *)
(* frames the last step settled (innermost first), nreq the transport      *)
(* requests issued for the current call, ncalls the user's calls so far,   *)
(* valid whether a login has succeeded with no logout or expiry since.     *)
(* A _request frame records the requests it has sent (sends), the          *)
(* re-logins it has started (relogins) and the parsed first response that  *)
(* made it re-login (first); a login frame records whether a token was     *)
(* held when it was called and how its logout call ended.                  *)
(***************************************************************************)
VARIABLES token, oldtoken, username, password, login_response,
          stack, result, resp, sent, settled, nreq, ncalls, valid, wire

\* One uploadStream call: the detected size, the promise of the init call,
\* the source stream's state, the running offset, the lengths of the chunks
\* the source has emitted, the part requests, the promise of the complete
\* call, the compensating delete calls, and the promise uploadStream
\* returned.  usettle records how the returned promise settled: the event
\* whose handler settled it and what had been issued by then.
VARIABLES usize, uinit, usrc, uoffset, uemitted, uparts, ucomplete,
          udeletes, uresult, usettle

\* the init request while it is in flight: the arguments of the call and
\* the data posted to fileupload/init
VARIABLE uinitreq

svars == <<token, oldtoken, username, password, login_response,
           stack, result, resp, sent, settled, nreq, ncalls, valid, wire>>

uvars == <<usize, uinit, usrc, uoffset, uemitted, uparts, ucomplete,
           udeletes, uresult, usettle, uinitreq>>

\* One downloadStream or download call: which of the two it is, whether the
\* runtime still accepts fs.unlink without a callback, the GET request and
\* its answer, the response stream, the chunks the response emitted and
\* those the returned stream delivered, the errors the returned stream
\* emitted; for download the local write stream, whether it was ended,
\* whether the local file exists, the chunks written to it, the unlink call
\* and the returned promise.
VARIABLES dcall, dlegacy, dreq, dstatus, dres, dbody, ddata, derrors,
          df, dfend, dfile, dwritten, dunlink, dresult

dvars == <<dcall, dlegacy, dreq, dstatus, dres, dbody, ddata, derrors,
           df, dfend, dfile, dwritten, dunlink, dresult>>

\* Two calls of get/post/put/delete in flight side by side on one
\* ConManager: for each call its pending promises, its outcome and the
\* transport requests it has issued.  The others record history: for each
\* call the response its last re-login resolved with, the _request frame as
\* it settled and whether the tokens were null when it had detected the
\* expiry; the login response processed last and the auth/login requests
\* issued by both calls.
VARIABLES cstack, cresult, cnreq, clogin, cframe, ccleared, clast, cposts

cvars == <<cstack, cresult, cnreq, clogin, cframe, ccleared, clast, cposts>>

vars == <<svars, uvars, dvars, cvars>>

NoRequest == [method |-> "", endpoint |-> "", data |-> NoData,
              hdr |-> Absent, by |-> "none"]
NoWire == [method |-> "", path |-> "", clen |-> Absent, body |-> "",
           hdr |-> Absent]
Idle == [kind |-> "idle", v |-> Undefined]
Pending == [kind |-> "pending", v |-> Undefined]
Resolved(v) == [kind |-> "resolved", v |-> v]
Rejected(v) == [kind |-> "rejected", v |-> v]

\* the state as one record, for the operators that model the handlers
Machine ==
    [token |-> token, oldtoken |-> oldtoken, username |-> username,
     password |-> password, login_response |-> login_response,
     stack |-> stack, result |-> result, sent |-> NoRequest,
     settled |-> <<>>, nreq |-> nreq, valid |-> valid, wire |-> NoWire]

Top(m) == m.stack[Len(m.stack)]
Pop(s) == SubSeq(s, 1, Len(s) - 1)
SetTop(m, frame) == [m EXCEPT !.stack = Append(Pop(m.stack), frame)]

(***************************************************************************)
(* _request: build the headers and send the request.                       *)
(***************************************************************************)
\* Text is built as a sequence of pieces, each piece a string, and joined
\* into one string at the end.  The strings that hold characters outside
\* ASCII, with their length in UTF-16 units, in UTF-8 bytes and their
\* percent-encoding:
WideStrings == {EAcute}
Length(piece) == IF piece \in WideStrings THEN 1 ELSE Len(piece)
Utf8Length(piece) == IF piece \in WideStrings THEN 2 ELSE Len(piece)
Escape(piece) == IF piece \in WideStrings THEN "%C3%A9" ELSE piece

RECURSIVE CharLength(_)
CharLength(text) ==
    IF text = <<>> THEN 0 ELSE Length(Head(text)) + CharLength(Tail(text))

\* Buffer.byteLength(text): the length of the UTF-8 encoding
RECURSIVE ByteLength(_)
ByteLength(text) ==
    IF text = <<>> THEN 0 ELSE Utf8Length(Head(text)) + ByteLength(Tail(text))

RECURSIVE Concat(_)
Concat(text) == IF text = <<>> THEN "" ELSE Head(text) \o Concat(Tail(text))

RECURSIVE Join(_, _)
Join(texts, sep) ==
    IF texts = <<>> THEN <<>>
    ELSE IF Len(texts) = 1 THEN texts[1]
    ELSE texts[1] \o <<sep>> \o Join(Tail(texts), sep)

\* the own fields of an object, in the order they were created
KeyOrder == <<"username", "password", "token", "limit", "name">>
Keys(v) == SelectSeq(KeyOrder, LAMBDA k : k \in DOMAIN v.f)

\* querystring.stringify(data): key=value pairs joined by &; a string or
\* a number is converted and escaped, any other value gives the empty
\* string; a value that is not an object gives the empty string
QueryPrimitive(v) ==
    CASE v.ty = "string" -> Escape(v.s)
      [] v.ty = "number" -> ToString(v.n)
      [] OTHER -> ""

QueryStringify(data) ==
    IF data.ty = "object"
    THEN LET ks == Keys(data)
         IN  Join([i \in 1..Len(ks) |->
                      <<ks[i], "=", QueryPrimitive(data.f[ks[i]])>>], "&")
    ELSE <<>>

\* JSON.stringify(data); a field whose value is undefined is left out
RECURSIVE JSONStringify(_)
JSONStringify(v) ==
    CASE v.ty = "string" -> <<"\"", v.s, "\"">>
      [] v.ty = "number" -> <<ToString(v.n)>>
      [] v.ty = "null" -> <<"null">>
      [] v.ty = "object" ->
            LET ks == SelectSeq(Keys(v), LAMBDA k : v.f[k].ty # "undefined")
            IN  <<"{">>
                \o Join([i \in 1..Len(ks) |->
                            <<"\"", ks[i], "\"", ":">>
                            \o JSONStringify(v.f[ks[i]])], ",")
                \o <<"}">>

JsonText(text) == [ty |-> "text", text |-> text]

ReadMethods == {"GET", "HEAD", "DELETE"}

\* _request: endpoint, data and headers['Content-Length'] after the
\* encoding of data
Encode_CharLength(method, endpoint, data) ==
    IF method \in ReadMethods
    THEN [path |-> IF Truthy(data)
                   THEN Concat(<<endpoint, "?">> \o QueryStringify(data))
                   ELSE endpoint,
          data |-> data, clen |-> Absent]
    ELSE IF Truthy(data)
         THEN LET text == JSONStringify(data)
              IN  [path |-> endpoint, data |-> JsonText(Concat(text)),
                   clen |-> Num(CharLength(text))]
         ELSE [path |-> endpoint, data |-> data, clen |-> Num(0)]

Encode(method, endpoint, data) ==
    IF method \in ReadMethods
    THEN [path |-> IF Truthy(data)
                   THEN Concat(<<endpoint, "?">> \o QueryStringify(data))
                   ELSE endpoint,
          data |-> data, clen |-> Absent]
    ELSE IF Truthy(data)
         THEN LET text == JSONStringify(data)
              IN  [path |-> endpoint, data |-> JsonText(Concat(text)),
                   clen |-> Num(ByteLength(text))]
         ELSE [path |-> endpoint, data |-> data, clen |-> Num(0)]

\* what http_call.request(options, ...), the write of data under
\* ['GET', 'HEAD', 'DELETE'].indexOf(method) < 0 && data, and end() put on
\* the connection
Transmit(method, enc, hdr) ==
    [method |-> method, path |-> enc.path, clen |-> enc.clen,
     body |-> IF method \notin ReadMethods /\ Truthy(enc.data)
              THEN enc.data.text ELSE "",
     hdr |-> hdr]

RequestFrame(method, endpoint, data, hdr) ==
    LET enc == Encode(method, endpoint, data)
    IN  [fn |-> "_request", method |-> method, endpoint |-> endpoint,
         data |-> data, hdr |-> hdr, phase |-> "first", sends |-> 1,
         relogins |-> 0, first |-> Undefined, enc |-> enc,
         wired |-> Transmit(method, enc, hdr)]

Request(m, method, endpoint, data) ==
    LET hdr == IF Truthy(m.token) THEN m.token ELSE Absent
        frame == RequestFrame(method, endpoint, data, hdr)
    IN  [m EXCEPT
            !.stack = Append(@, frame),
            !.sent = [method |-> method, endpoint |-> endpoint,
                      data |-> data, hdr |-> hdr, by |-> "first"],
            !.wire = frame.wired,
            !.nreq = @ + 1]

(***************************************************************************)
(* login, up to its first transport request.                               *)
(***************************************************************************)
LoginFrame(u, p, phase, hadToken) ==
    [fn |-> "login", u |-> u, p |-> p, phase |-> phase,
     hadToken |-> hadToken, logout |-> "none"]

LoginData(u, p) == Obj([username |-> u, password |-> p])

\* mutant: the credentials are not stored
Login_ForgetCredentials(m, u, p) ==
    IF Truthy(m.token)
    THEN Request([m EXCEPT
                     !.login_response = EmptyObject,
                     !.stack = Append(@, LoginFrame(u, p, "logout", TRUE))],
                 "GET", "auth/logout", Obj([token |-> m.oldtoken]))
    ELSE Request([m EXCEPT
                     !.stack = Append(@, LoginFrame(u, p, "post", FALSE))],
                 "POST", "auth/login", LoginData(u, p))

Login(m, u, p) ==
    LET m1 == [m EXCEPT !.username = u, !.password = p]
    IN  IF Truthy(m.token)
        THEN Request([m1 EXCEPT
                         !.login_response = EmptyObject,
                         !.stack = Append(@, LoginFrame(u, p, "logout", TRUE))],
                     "GET", "auth/logout", Obj([token |-> m.oldtoken]))
        ELSE Request([m1 EXCEPT
                         !.stack = Append(@, LoginFrame(u, p, "post", FALSE))],
                     "POST", "auth/login", LoginData(u, p))

(***************************************************************************)
(* The 'end' handler of a response: parse the body.  JSON.parse is applied *)
(* to a non-empty body only; a SyntaxError is replaced by a synthesized    *)
(* object and the status code of the response is overwritten with 500.     *)
(***************************************************************************)
JSONParse(body) ==
    IF body.kind = "json"
    THEN [ok |-> TRUE, v |-> body.v]
    ELSE [ok |-> FALSE, v |-> Undefined]

\* mutant: the status code is not overwritten after a SyntaxError
ParseResponse_KeepStatus(r) ==
    IF r.body.kind = "empty"
    THEN [v |-> Str(""), statusCode |-> r.status]
    ELSE IF JSONParse(r.body).ok
         THEN [v |-> JSONParse(r.body).v, statusCode |-> r.status]
         ELSE [v |-> Obj([httpErrorCode |-> r.status, code |-> r.msg,
                          description |-> r.body.raw]),
               statusCode |-> r.status]

\* mutant: the status code is overwritten before the object is built
ParseResponse_Code500(r) ==
    IF r.body.kind = "empty"
    THEN [v |-> Str(""), statusCode |-> r.status]
    ELSE IF JSONParse(r.body).ok
         THEN [v |-> JSONParse(r.body).v, statusCode |-> r.status]
         ELSE [v |-> Obj([httpErrorCode |-> 500, code |-> r.msg,
                          description |-> r.body.raw]),
               statusCode |-> 500]

ParseResponse(r) ==
    IF r.body.kind = "empty"
    THEN [v |-> Str(""), statusCode |-> r.status]
    ELSE IF JSONParse(r.body).ok
         THEN [v |-> JSONParse(r.body).v, statusCode |-> r.status]
         ELSE [v |-> Obj([httpErrorCode |-> r.status, code |-> r.msg,
                          description |-> r.body.raw]),
               statusCode |-> 500]

\* mutant: every httpErrorCode 401 counts as an expiry
IsExpiry_AnyUnauthorized(v) ==
    /\ Truthy(v)
    /\ v.ty = "object"
    /\ "httpErrorCode" \in DOMAIN v.f
    /\ v.f.httpErrorCode = 401

\* resp && typeof resp === 'object' && 'httpErrorCode' in resp
\*      && resp.httpErrorCode == 401 && resp.code == 'NoUserLogon'
\* (the httpErrorCode values of the model are numbers and the code values
\* strings, on which == is equality)
IsExpiry(v) ==
    /\ Truthy(v)
    /\ v.ty = "object"
    /\ "httpErrorCode" \in DOMAIN v.f
    /\ v.f.httpErrorCode = 401
    /\ "code" \in DOMAIN v.f
    /\ v.f.code = "NoUserLogon"

\* mutant: only server errors reject
ByStatus_ServerErrors(parsed) ==
    IF parsed.statusCode >= 500 THEN Rejected(parsed.v) ELSE Resolved(parsed.v)

\* if (statusCode >= 400) reject(resp) else resolve(resp)
ByStatus(parsed) ==
    IF parsed.statusCode >= 400 THEN Rejected(parsed.v) ELSE Resolved(parsed.v)

(***************************************************************************)
(* Settling a promise runs the continuations of the promise that waits     *)
(* for it: login waiting for its logout or for its auth/login call, or     *)
(* _request waiting for the re-login it started.                           *)
(***************************************************************************)
RECURSIVE Settle(_, _)
RECURSIVE LoginPosted(_, _)
RECURSIVE ReloginSettled(_, _)

\* mutant: a failed logout fails the login
LogoutSettled_Propagate(m, out) ==
    LET f == Top(m)
        m1 == [m EXCEPT !.oldtoken = Null, !.token = Null, !.valid = FALSE]
        m2 == SetTop(m1, [f EXCEPT !.phase = "post", !.logout = out.kind])
    IN  IF out.kind = "rejected"
        THEN Settle(m1, out)
        ELSE Request(m2, "POST", "auth/login", LoginData(f.u, f.p))

\* login: the .then and .catch of the logout call, then the login call
LogoutSettled(m, out) ==
    LET f == Top(m)
        m1 == [m EXCEPT !.oldtoken = Null, !.token = Null, !.valid = FALSE]
        m2 == SetTop(m1, [f EXCEPT !.phase = "post", !.logout = out.kind])
    IN  Request(m2, "POST", "auth/login", LoginData(f.u, f.p))

\* mutant: the main token is stored as the previous token too
LoginPosted_SameToken(m, out) ==
    IF out.kind = "rejected"
    THEN Settle(m, out)
    ELSE LET m1 == [m EXCEPT !.login_response = out.v]
         IN  IF out.v.ty # "object"
             THEN Settle(m1, Rejected(JsError("TypeError",
                                 "Cannot use 'in' operator")))
             ELSE IF HasField(out.v, TokenName)
                  THEN Settle([m1 EXCEPT
                                  !.token = GetField(out.v, TokenName),
                                  !.oldtoken = GetField(out.v, TokenName),
                                  !.valid = TRUE],
                              Resolved(out.v))
                  ELSE Settle(m1, Rejected(JsError("Error",
                                      "No token received!")))

LoginPosted_StoreOnToken(m, out) ==
    IF out.kind = "rejected"
    THEN Settle(m, out)
    ELSE IF out.v.ty # "object"
         THEN Settle(m, Rejected(JsError("TypeError",
                             "Cannot use 'in' operator")))
         ELSE IF HasField(out.v, TokenName)
              THEN Settle([m EXCEPT
                              !.login_response = out.v,
                              !.token = GetField(out.v, TokenName),
                              !.oldtoken = GetField(out.v, "token"),
                              !.valid = TRUE],
                          Resolved(out.v))
              ELSE Settle(m, Rejected(JsError("Error",
                                  "No token received!")))

\* login: the .then of the auth/login call; a rejection passes through
LoginPosted(m, out) ==
    IF out.kind = "rejected"
    THEN Settle(m, out)
    ELSE LET m1 == [m EXCEPT !.login_response = out.v]
         IN  IF out.v.ty # "object"
             THEN Settle(m1, Rejected(JsError("TypeError",
                                 "Cannot use 'in' operator")))
             ELSE IF HasField(out.v, TokenName)
                  THEN Settle([m1 EXCEPT
                                  !.token = GetField(out.v, TokenName),
                                  !.oldtoken = GetField(out.v, "token"),
                                  !.valid = TRUE],
                              Resolved(out.v))
                  ELSE Settle(m1, Rejected(JsError("Error",
                                      "No token received!")))

\* _request: the .then and .catch of the re-login
ReloginSettled(m, out) ==
    IF out.kind = "rejected"
    THEN Settle(m, out)
    ELSE LET f == Top(m)
         IN  [SetTop(m, [f EXCEPT !.hdr = m.token, !.phase = "retry",
                                  !.sends = @ + 1])
                 EXCEPT !.sent = [method |-> f.method, endpoint |-> f.endpoint,
                                  data |-> f.data, hdr |-> m.token,
                                  by |-> "retry"],
                        !.wire = Transmit(f.method, f.enc, m.token),
                        !.nreq = @ + 1]

\* the innermost pending promise settles with out
Settle(m, out) ==
    LET m1 == [m EXCEPT !.stack = Pop(@),
                        !.settled = Append(@, [frame |-> Top(m), out |-> out])]
    IN  IF m1.stack = <<>>
        THEN [m1 EXCEPT !.result = out]
        ELSE CASE Top(m1).fn = "_request" -> ReloginSettled(m1, out)
               [] Top(m1).phase = "logout" -> LogoutSettled(m1, out)
               [] OTHER -> LoginPosted(m1, out)

(***************************************************************************)
(* _request: the response to the request, and to the retried request.      *)
(***************************************************************************)
ExpiryDetected(m, v) ==
    LET f == Top(m)
        m1 == [m EXCEPT !.oldtoken = Null, !.token = Null, !.valid = FALSE]
        m2 == SetTop(m1, [f EXCEPT !.phase = "login", !.relogins = @ + 1,
                                   !.first = v])
    IN  Login(m2, m2.username, m2.password)

FirstResponse(m, r) ==
    IF IsExpiry(ParseResponse(r).v)
    THEN ExpiryDetected(m, ParseResponse(r).v)
    ELSE Settle(m, ByStatus(ParseResponse(r)))

\* mutant: the retried request's response is checked for expiry again
RetryResponse_Recheck(m, r) == FirstResponse(m, r)

RetryResponse(m, r) == Settle(m, ByStatus(ParseResponse(r)))

OnResponse(m, r) ==
    IF Top(m).phase = "first" THEN FirstResponse(m, r) ELSE RetryResponse(m, r)

\* req.on('error') and nreq.on('error')
OnError_DropSession(m, e) ==
    Settle([m EXCEPT !.token = Null, !.oldtoken = Null], Rejected(e))

OnError(m, e) == Settle(m, Rejected(e))

(***************************************************************************)
(* Actions.                                                                *)
(***************************************************************************)
Apply(m) ==
    /\ token' = m.token
    /\ oldtoken' = m.oldtoken
    /\ username' = m.username
    /\ password' = m.password
    /\ login_response' = m.login_response
    /\ stack' = m.stack
    /\ result' = m.result
    /\ sent' = m.sent
    /\ wire' = m.wire
    /\ settled' = m.settled
    /\ nreq' = m.nreq
    /\ valid' = m.valid

Pair == 1..2

PairIdle ==
    /\ cstack = [i \in Pair |-> <<>>]
    /\ cresult = [i \in Pair |-> Idle]
    /\ cnreq = [i \in Pair |-> 0]
    /\ clogin = [i \in Pair |-> Undefined]
    /\ cframe = [i \in Pair |-> Undefined]
    /\ ccleared = [i \in Pair |-> FALSE]
    /\ clast = Undefined
    /\ cposts = 0

DownloadIdle ==
    /\ dcall = "none"
    /\ dlegacy = TRUE
    /\ dreq = "idle"
    /\ dstatus = 0
    /\ dres = "none"
    /\ dbody = <<>>
    /\ ddata = <<>>
    /\ derrors = <<>>
    /\ df = "none"
    /\ dfend = FALSE
    /\ dfile = FALSE
    /\ dwritten = <<>>
    /\ dunlink = "none"
    /\ dresult = Idle

(***************************************************************************)
(* Text.  A string whose characters matter is a sequence of one-character  *)
(* strings.                                                                *)
(***************************************************************************)
Text(chars) == [ty |-> "string", chars |-> chars]

UpperCase == <<"A", "B", "C", "D", "E", "F", "G", "H", "I", "J", "K", "L", "M",
               "N", "O", "P", "Q", "R", "S", "T", "U", "V", "W", "X", "Y", "Z">>
LowerCase == <<"a", "b", "c", "d", "e", "f", "g", "h", "i", "j", "k", "l", "m",
               "n", "o", "p", "q", "r", "s", "t", "u", "v", "w", "x", "y", "z">>

\* String.prototype.toLowerCase
ToLowerCase(chars) ==
    [i \in 1..Len(chars) |->
        IF \E k \in 1..Len(UpperCase) : UpperCase[k] = chars[i]
        THEN LowerCase[CHOOSE k \in 1..Len(UpperCase) : UpperCase[k] = chars[i]]
        ELSE chars[i]]

\* the position of the last c in chars, 0 if there is none
LastIndexOf(chars, c) ==
    IF \E i \in 1..Len(chars) : chars[i] = c
    THEN CHOOSE i \in 1..Len(chars) :
            /\ chars[i] = c
            /\ \A j \in (i + 1)..Len(chars) : chars[j] # c
    ELSE 0

\* path.basename and path.dirname of a relative path without trailing slash
Basename(path) == SubSeq(path, LastIndexOf(path, "/") + 1, Len(path))
Dirname(path) ==
    IF LastIndexOf(path, "/") = 0
    THEN <<".">>
    ELSE SubSeq(path, 1, LastIndexOf(path, "/") - 1)

\* path.extname: from the last dot of the basename, empty when there is no
\* dot or the only dot is the first character
Extname(path) ==
    LET name == Basename(path)
        dot == LastIndexOf(name, ".")
    IN  IF dot <= 1 THEN <<>> ELSE SubSeq(name, dot, Len(name))

(***************************************************************************)
(* uploadStream: the values it handles.                                    *)
(***************************************************************************)
\* the answer of fileupload/init: the upload's uuid and the media's id
InitObject == Obj([uuid |-> Str("u1"), mediaId |-> Str("m1")])

\* what the server may answer to the init call, and to the complete and
\* delete calls
InitResponses ==
    {[status |-> 200, msg |-> "OK", body |-> JsonBody(InitObject)],
     [status |-> 500, msg |-> "OK", body |-> JsonBody(OtherErrorObject)]}
UploadResponses ==
    {[status |-> 200, msg |-> "OK", body |-> EmptyBody],
     [status |-> 500, msg |-> "OK", body |-> JsonBody(OtherErrorObject)]}

\* how this.post and this.delete settle: _request's decision on the
\* answer (no answer here is a session expiry)
InitOutcomes == {ByStatus(ParseResponse(r)) : r \in InitResponses}
CallOutcomes == {ByStatus(ParseResponse(r)) : r \in UploadResponses}

\* what the server may answer to a part request
PartResponses == [status : {200, 500}, msg : {"OK"}]

\* the cmpath and upload_type arguments of uploadStream
CmPaths ==
    {<<"a", ".", "z", "i", "p">>, <<"a", ".", "Z", "I", "P">>,
     <<"d", "/", "a", ".", "e", "x", "e">>, <<"a", ".", "b", "a", "t">>,
     <<"a", ".", "c", "m", "d">>, <<"a", ".", "p", "y">>,
     <<"a", ".", "v", "b", "s">>, <<"a", ".", "p", "n", "g">>,
     <<"d", ".", "p", "y", "/", "a">>, <<"a", ".", "p", "y", ".", "t", "x", "t">>,
     <<".", "z", "i", "p">>, <<"a">>}
UploadTypeArgs ==
    {Undefined, Text(<<"a", "u", "t", "o">>), Text(<<"A", "u", "t", "o">>),
     Text(<<"m", "e", "d", "i", "a", "_", "i", "t", "e", "m">>),
     Text(<<"M", "A", "I", "N", "T", "_", "I", "T", "E", "M">>),
     Text(<<"F", "o", "n", "t">>)}

MaintItem == <<"m", "a", "i", "n", "t", "_", "i", "t", "e", "m">>
MediaItem == <<"m", "e", "d", "i", "a", "_", "i", "t", "e", "m">>
MaintExtensions ==
    {<<".", "b", "a", "t">>, <<".", "c", "m", "d">>, <<".", "p", "y">>,
     <<".", "v", "b", "s">>, <<".", "e", "x", "e">>, <<".", "z", "i", "p">>}

\* the upload type posted to fileupload/init
UploadType_KeepCase(upload_type, filename) ==
    LET t == IF upload_type = Undefined
             THEN <<"a", "u", "t", "o">>
             ELSE upload_type.chars
    IN  IF ToLowerCase(t) = <<"a", "u", "t", "o">>
        THEN IF Extname(filename) \in MaintExtensions
             THEN MaintItem
             ELSE MediaItem
        ELSE t

UploadType(upload_type, filename) ==
    LET t == IF upload_type = Undefined
             THEN <<"a", "u", "t", "o">>
             ELSE ToLowerCase(upload_type.chars)
    IN  IF t = <<"a", "u", "t", "o">>
        THEN IF Extname(filename) \in MaintExtensions
             THEN MaintItem
             ELSE MediaItem
        ELSE t

\* { filename, filepath, uploadType } as posted to fileupload/init
InitData(cmpath, upload_type) ==
    Obj([filename |-> Text(Basename(cmpath)),
         filepath |-> Text(IF Dirname(cmpath) = <<".">>
                           THEN <<>> ELSE Dirname(cmpath)),
         uploadType |-> Text(UploadType(upload_type, Basename(cmpath)))])

NoInitRequest == [cmpath |-> <<>>, upload_type |-> Undefined,
                  data |-> Undefined]

\* the error the source stream emits
SourceFailure == JsError("Error", "EIO")

ChunkLens == 1..MaxChunkLen

NotSettled == [by |-> "none", i |-> 0, deletes |-> 0, src |-> "idle"]

UploadIdle ==
    /\ usize = 0
    /\ uinit = Idle
    /\ usrc = "idle"
    /\ uoffset = 0
    /\ uemitted = <<>>
    /\ uparts = <<>>
    /\ ucomplete = Idle
    /\ udeletes = <<>>
    /\ uresult = Idle
    /\ usettle = NotSettled
    /\ uinitreq = NoInitRequest

Init ==
    /\ token = Null
    /\ oldtoken = Null
    /\ username = Undefined
    /\ password = Undefined
    /\ login_response = EmptyObject
    /\ stack = <<>>
    /\ result = Idle
    /\ resp = NoResponse
    /\ sent = NoRequest
    /\ wire = NoWire
    /\ settled = <<>>
    /\ nreq = 0
    /\ ncalls = 0
    /\ valid = FALSE
    /\ UploadIdle
    /\ DownloadIdle
    /\ PairIdle

NewCall == [Machine EXCEPT !.result = Pending, !.nreq = 0]

\* the user calls get(endpoint, data) or post(endpoint, data)
CallRequest ==
    /\ stack = <<>>
    /\ ncalls < MaxCalls
    /\ \E method \in Methods, data \in UserData :
          Apply(Request(NewCall, method, "players", data))
    /\ resp' = NoResponse
    /\ ncalls' = ncalls + 1
    /\ UNCHANGED <<uvars, dvars, cvars>>

\* the user calls login(username, password)
CallLogin ==
    /\ stack = <<>>
    /\ ncalls < MaxCalls
    /\ \E c \in Credentials : Apply(Login(NewCall, c[1], c[2]))
    /\ resp' = NoResponse
    /\ ncalls' = ncalls + 1
    /\ UNCHANGED <<uvars, dvars, cvars>>

\* the response to the request in flight arrives
Response ==
    /\ stack # <<>>
    /\ \E r \in Responses :
          /\ (Top(Machine).phase = "first" /\ IsExpiry(ParseResponse(r).v))
                => Len(stack) + 2 <= MaxStack
          /\ Apply(OnResponse(Machine, r))
          /\ resp' = r
    /\ UNCHANGED ncalls
    /\ UNCHANGED <<uvars, dvars, cvars>>

\* the request in flight fails at transport level
TransportError ==
    /\ stack # <<>>
    /\ Apply(OnError(Machine, TransportFailure))
    /\ resp' = NoResponse
    /\ UNCHANGED ncalls
    /\ UNCHANGED <<uvars, dvars, cvars>>

Next == CallRequest \/ CallLogin \/ Response \/ TransportError

Spec == Init /\ [][Next]_vars

(***************************************************************************)
(* uploadStream.  A step is one event of the upload: the call itself, the  *)
(* settling of the init, complete or delete call (each a _request of the   *)
(* session above), the answer or the transport error of a part request, or *)
(* a 'data', 'end' or 'error' event of the source stream.  Once the init   *)
(* call has resolved, the part requests, the complete call and the delete  *)
(* calls are in flight side by side and their events come in any order.    *)
(***************************************************************************)
\* if (size > 0): the stream's length is known
KnownLength(size) == size > 0

\* if (res.statusCode >= 300) error(res) else success(res)

PartFailed(res) == res.status >= 300

\* let error = new Error(err.statusMessage); error.code = err.statusCode
StatusError_NoCode(res) ==
    [ty |-> "error", name |-> "Error", message |-> res.msg, code |-> 0]

StatusError(res) ==
    [ty |-> "error", name |-> "Error", message |-> res.msg,
     code |-> res.status]

\* offset += chunk.byteLength
NextOffset_Count(offset, len) == offset + 1

NextOffset_Stuck(offset, len) == offset

NextOffset(offset, len) == offset + len

\* resolve and reject of a promise that has settled already do nothing
SettleOnce(promise, out) == IF promise.kind = "pending" THEN out ELSE promise

\* this.delete(...).then(() => { reject(error); }).catch(reject)
DeleteSettled_DeleteResponse(error, out) == Rejected(out.v)

DeleteSettled(error, out) ==
    IF out.kind = "resolved" THEN Rejected(error) ELSE out

\* this.post(complete).then(() => { resolve(resp_init); }).catch(reject)
CompleteSettled_OwnResponse(resp_init, out) == out

CompleteSettled(resp_init, out) ==
    IF out.kind = "resolved" THEN Resolved(resp_init) ELSE out

\* the header _request and upload_chunk attach when a token is held
TokenHeader == IF Truthy(token) THEN token ELSE Absent

\* upload_chunk: PUT fileupload/part/{uuid}/{off} with Content-Length siz,
\* in flight
PartRequest(off, siz, uuid) ==
    [off |-> off, len |-> siz, uuid |-> uuid, hdr |-> TokenHeader,
     st |-> "flight", status |-> 0]

\* resolve(v) or reject(v) of the returned promise, called by the handler
\* of event `by` (of part or delete i)
SettleUpload(out, by, i) ==
    /\ uresult' = SettleOnce(uresult, out)
    /\ usettle' = IF uresult.kind = "pending"
                  THEN [by |-> by, i |-> i, deletes |-> Len(udeletes),
                        src |-> usrc]
                  ELSE usettle

\* this.delete(`media/${resp_init.mediaId}`), issued by the handler of
\* event `by` (of part i) with the error to reject with
IssueDelete(error, by, i) ==
    udeletes' = Append(udeletes,
                       [id |-> GetField(uinit.v, "mediaId"), err |-> error,
                        by |-> by, i |-> i, out |-> Pending])

\* this.post(`fileupload/complete/${resp_init.uuid}`)
IssueComplete == ucomplete' = Pending

\* the user calls uploadStream(rstream, cmpath): the init call goes out
UploadStream ==
    /\ uinit.kind = "idle"
    /\ \E size \in 0..MaxChunkLen : usize' = size
    /\ \E cmpath \in CmPaths, upload_type \in UploadTypeArgs :
          uinitreq' = [cmpath |-> cmpath, upload_type |-> upload_type,
                       data |-> InitData(cmpath, upload_type)]
    /\ uinit' = Pending
    /\ uresult' = Pending
    /\ UNCHANGED <<usrc, uoffset, uemitted, uparts, ucomplete, udeletes,
                   usettle>>
    /\ UNCHANGED <<svars, dvars, cvars>>

\* the init call settles; on success the executor of the returned promise
\* runs: the single part request and the pipe, or the stream's listeners
InitSettled ==
    /\ uinit.kind = "pending"
    /\ \E o \in InitOutcomes :
          /\ uinit' = o
          /\ uinitreq' = NoInitRequest
          /\ IF o.kind = "rejected"
             THEN /\ SettleUpload(o, "init", 0)
                  /\ UNCHANGED <<usrc, uparts>>
             ELSE /\ usrc' = "flowing"
                  /\ UNCHANGED <<uresult, usettle>>
                  /\ IF KnownLength(usize)
                     THEN uparts' = <<PartRequest(0, usize,
                                                  GetField(o.v, "uuid"))>>
                     ELSE UNCHANGED uparts
    /\ UNCHANGED <<usize, uoffset, uemitted, ucomplete, udeletes>>
    /\ UNCHANGED <<svars, dvars, cvars>>

\* rstream 'data' (length unknown): a part request for the chunk
SourceData ==
    /\ usrc = "flowing"
    /\ ~KnownLength(usize)
    /\ Len(uemitted) < MaxChunks
    /\ \E n \in ChunkLens :
          /\ uemitted' = Append(uemitted, n)
          /\ uparts' = Append(uparts, PartRequest(uoffset, n,
                                         GetField(uinit.v, "uuid")))
          /\ uoffset' = NextOffset(uoffset, n)
    /\ UNCHANGED <<uinitreq, usize, uinit, usrc, ucomplete, udeletes, uresult,
                   usettle>>
    /\ UNCHANGED <<svars, dvars, cvars>>

\* rstream 'end': the pipe ends the part request (length known), or the
\* complete call goes out (length unknown)
SourceEnd ==
    /\ usrc = "flowing"
    /\ usrc' = "ended"
    /\ IF KnownLength(usize) THEN UNCHANGED ucomplete ELSE IssueComplete
    /\ UNCHANGED <<uinitreq, usize, uinit, uoffset, uemitted, uparts, udeletes,
                   uresult, usettle>>
    /\ UNCHANGED <<svars, dvars, cvars>>

\* rstream 'error': reject (length known), or the delete call goes out
SourceError ==
    /\ usrc \in {"flowing", "paused"}
    /\ usrc' = "errored"
    /\ IF KnownLength(usize)
       THEN /\ SettleUpload(Rejected(SourceFailure), "error", 0)
            /\ UNCHANGED udeletes
       ELSE /\ IssueDelete(SourceFailure, "error", 0)
            /\ UNCHANGED <<uresult, usettle>>
    /\ UNCHANGED <<uinitreq, usize, uinit, uoffset, uemitted, uparts, ucomplete>>
    /\ UNCHANGED <<svars, dvars, cvars>>

\* a part request is answered: success(res) or error(res)
PartAnswered ==
    \E i \in 1..Len(uparts), res \in PartResponses :
       /\ uparts[i].st = "flight"
       /\ uparts' = [uparts EXCEPT ![i].st = "answered",
                                   ![i].status = res.status]
       /\ IF PartFailed(res)
          THEN /\ IssueDelete(StatusError(res), "part", i)
               /\ usrc' = IF ~KnownLength(usize) /\ usrc = "flowing"
                          THEN "paused" ELSE usrc
               /\ UNCHANGED ucomplete
          ELSE /\ IF KnownLength(usize)
                  THEN IssueComplete
                  ELSE UNCHANGED ucomplete
               /\ UNCHANGED <<usrc, udeletes>>
       /\ UNCHANGED <<uinitreq, usize, uinit, uoffset, uemitted, uresult, usettle>>
       /\ UNCHANGED <<svars, dvars, cvars>>

\* a part request fails at transport level: .on('error', reject)
PartTransportError ==
    \E i \in 1..Len(uparts) :
       /\ uparts[i].st = "flight"
       /\ uparts' = [uparts EXCEPT ![i].st = "error"]
       /\ SettleUpload(Rejected(TransportFailure), "parterror", i)
       /\ UNCHANGED <<uinitreq, usize, uinit, usrc, uoffset, uemitted, ucomplete,
                      udeletes>>
       /\ UNCHANGED <<svars, dvars, cvars>>

\* the complete call settles
CompleteAnswered ==
    /\ ucomplete.kind = "pending"
    /\ \E o \in CallOutcomes :
          /\ ucomplete' = o
          /\ SettleUpload(CompleteSettled(uinit.v, o), "complete", 0)
    /\ UNCHANGED <<uinitreq, usize, uinit, usrc, uoffset, uemitted, uparts, udeletes>>
    /\ UNCHANGED <<svars, dvars, cvars>>

\* a delete call settles
DeleteAnswered ==
    \E j \in 1..Len(udeletes), o \in CallOutcomes :
       /\ udeletes[j].out.kind = "pending"
       /\ udeletes' = [udeletes EXCEPT ![j].out = o]
       /\ SettleUpload(DeleteSettled(udeletes[j].err, o), "delete", j)
       /\ UNCHANGED <<uinitreq, usize, uinit, usrc, uoffset, uemitted, uparts,
                      ucomplete>>
       /\ UNCHANGED <<svars, dvars, cvars>>

NextUpload ==
    \/ UploadStream
    \/ InitSettled
    \/ SourceData
    \/ SourceEnd
    \/ SourceError
    \/ PartAnswered
    \/ PartTransportError
    \/ CompleteAnswered
    \/ DeleteAnswered

SpecUpload == Init /\ [][NextUpload]_vars

(***************************************************************************)
(* downloadStream and download.  A step is one event: the call, the        *)
(* response to the GET request or its transport error, a 'data', 'end' or  *)
(* 'aborted' event of the response, the opening, closing or error of the   *)
(* local write stream, or the completion of the unlink.                    *)
(***************************************************************************)
\* what the server may answer to the GET request
DownloadResponses ==
    {[status |-> 200, msg |-> "OK"], [status |-> 204, msg |-> "No Content"],
     [status |-> 404, msg |-> "Not Found"]}

\* the error the local write stream emits
FileFailure == JsError("Error", "ENOSPC")

\* if (res.statusCode != 200)
DownloadFailed_ClientServerErrors(res) == res.status >= 400

DownloadFailed(res) == res.status # 200

\* fs.unlink(file) without a callback throws where the runtime requires
\* the callback (package.json admits every node >= 4.0.0); the exception
\* leaves the event handler and nothing runs after it
Crashed == dunlink = "threw"

\* download: the handler of the relay's 'error' and the second handler of
\* the write stream's 'error': fs.unlink(file); reject(e)
UnlinkAndReject(promise, e) ==
    /\ dunlink' = IF dlegacy THEN "requested" ELSE "threw"
    /\ dresult' = IF dlegacy THEN SettleOnce(promise, Rejected(e)) ELSE promise

\* pt.emit('error', e)
EmitError(e) ==
    /\ derrors' = Append(derrors, e)
    /\ IF dcall = "file"
       THEN UnlinkAndReject(dresult, e)
       ELSE UNCHANGED <<dunlink, dresult>>

\* the user calls downloadStream(cmpath)
DownloadStream ==
    /\ dcall = "none"
    /\ dcall' = "stream"
    /\ dreq' = "flight"
    /\ UNCHANGED <<dlegacy, dstatus, dres, dbody, ddata, derrors, df, dfend,
                   dfile, dwritten, dunlink, dresult>>
    /\ UNCHANGED <<svars, uvars, cvars>>

\* the user calls download(cmpath, file)
Download ==
    /\ dcall = "none"
    /\ dcall' = "file"
    /\ dlegacy' \in BOOLEAN
    /\ dfile' \in BOOLEAN
    /\ df' = "opening"
    /\ dreq' = "flight"
    /\ dresult' = Pending
    /\ UNCHANGED <<dstatus, dres, dbody, ddata, derrors, dfend, dwritten,
                   dunlink>>
    /\ UNCHANGED <<svars, uvars, cvars>>

\* the response to the GET request arrives
DownloadResponse ==
    /\ ~Crashed
    /\ dreq = "flight"
    /\ \E res \in DownloadResponses :
          /\ dreq' = "answered"
          /\ dstatus' = res.status
          /\ IF DownloadFailed(res)
             THEN /\ EmitError(StatusError(res))
                  /\ UNCHANGED dres
             ELSE /\ dres' = "piping"
                  /\ UNCHANGED <<derrors, dunlink, dresult>>
    /\ UNCHANGED <<dcall, dlegacy, dbody, ddata, df, dfend, dfile, dwritten>>
    /\ UNCHANGED <<svars, uvars, cvars>>

\* the GET request fails at transport level
DownloadTransportError ==
    /\ ~Crashed
    /\ dreq = "flight"
    /\ dreq' = "error"
    /\ EmitError(TransportFailure)
    /\ UNCHANGED <<dcall, dlegacy, dstatus, dres, dbody, ddata, df, dfend,
                   dfile, dwritten>>
    /\ UNCHANGED <<svars, uvars, cvars>>

\* the response emits a chunk: res.pipe(pt), and pt.pipe(f) for download
DownloadData ==
    /\ ~Crashed
    /\ dres = "piping"
    /\ Len(dbody) < MaxChunks
    /\ \E n \in ChunkLens :
          /\ dbody' = Append(dbody, n)
          /\ ddata' = Append(ddata, n)
          /\ dwritten' = IF dcall = "file" /\ df \in {"opening", "open"}
                         THEN Append(dwritten, n) ELSE dwritten
    /\ UNCHANGED <<dcall, dlegacy, dreq, dstatus, dres, derrors, df, dfend,
                   dfile, dunlink, dresult>>
    /\ UNCHANGED <<svars, uvars, cvars>>

\* the response ends: pt ends, and the pipe ends the write stream
DownloadEnd ==
    /\ ~Crashed
    /\ dres = "piping"
    /\ dres' = "ended"
    /\ dfend' = (dcall = "file" /\ df \in {"opening", "open"})
    /\ UNCHANGED <<dcall, dlegacy, dreq, dstatus, dbody, ddata, derrors, df,
                   dfile, dwritten, dunlink, dresult>>
    /\ UNCHANGED <<svars, uvars, cvars>>

\* the connection is lost before the body is complete: the response's own
\* events are not forwarded to pt
DownloadAborted ==
    /\ ~Crashed
    /\ dres = "piping"
    /\ dres' = "aborted"
    /\ UNCHANGED <<dcall, dlegacy, dreq, dstatus, dbody, ddata, derrors, df,
                   dfend, dfile, dwritten, dunlink, dresult>>
    /\ UNCHANGED <<svars, uvars, cvars>>

\* fs.createWriteStream(file): the file is open, created if need be
FileOpened ==
    /\ ~Crashed
    /\ df = "opening"
    /\ df' = "open"
    /\ dfile' = TRUE
    /\ UNCHANGED <<dcall, dlegacy, dreq, dstatus, dres, dbody, ddata, derrors,
                   dfend, dwritten, dunlink, dresult>>
    /\ UNCHANGED <<svars, uvars, cvars>>

\* the write stream, ended by the pipe, has written everything: 'close'
FileClosed ==
    /\ ~Crashed
    /\ df = "open"
    /\ dfend
    /\ df' = "closed"
    /\ dresult' = SettleOnce(dresult, Resolved(Undefined))
    /\ UNCHANGED <<dcall, dlegacy, dreq, dstatus, dres, dbody, ddata, derrors,
                   dfend, dfile, dwritten, dunlink>>
    /\ UNCHANGED <<svars, uvars, cvars>>

\* the write stream emits 'error': reject, then fs.unlink(file); reject(e)
FileError ==
    /\ ~Crashed
    /\ df \in {"opening", "open"}
    /\ df' = "errored"
    /\ UnlinkAndReject(SettleOnce(dresult, Rejected(FileFailure)), FileFailure)
    /\ UNCHANGED <<dcall, dlegacy, dreq, dstatus, dres, dbody, ddata, derrors,
                   dfend, dfile, dwritten>>
    /\ UNCHANGED <<svars, uvars, cvars>>

\* the unlink completes
UnlinkDone ==
    /\ dunlink = "requested"
    /\ dunlink' = "done"
    /\ dfile' = FALSE
    /\ UNCHANGED <<dcall, dlegacy, dreq, dstatus, dres, dbody, ddata, derrors,
                   df, dfend, dwritten, dresult>>
    /\ UNCHANGED <<svars, uvars, cvars>>

NextDownload ==
    \/ DownloadStream
    \/ Download
    \/ DownloadResponse
    \/ DownloadTransportError
    \/ DownloadData
    \/ DownloadEnd
    \/ DownloadAborted
    \/ FileOpened
    \/ FileClosed
    \/ FileError
    \/ UnlinkDone

SpecDownload == Init /\ [][NextDownload]_vars

(***************************************************************************)
(* Two generic calls side by side.  The handlers are those of _request and *)
(* login above, run on the shared fields of the instance and on the        *)
(* pending promises of the one call whose response has arrived; the other  *)
(* call's promises are untouched by the step.                              *)
(***************************************************************************)
\* the two calls: get('players') and post('players')
PairMethods == <<"GET", "POST">>

\* what the server may answer to the requests of the two calls
PairResponses ==
    [status : {200, 401}, msg : {"OK"},
     body : {JsonBody(ExpiryObject), JsonBody(LoginObject1),
             JsonBody(LoginObject2), JsonBody(NullTokenObject)}]

\* the instance and the promises of call i
MachineOf(i) ==
    [Machine EXCEPT !.stack = cstack[i], !.result = cresult[i],
                    !.nreq = cnreq[i]]

\* the logins that resolved in the step that led to m
ResolvedLogins(m) ==
    {j \in 1..Len(m.settled) :
        m.settled[j].frame.fn = "login" /\ m.settled[j].out.kind = "resolved"}

Last(S) == CHOOSE j \in S : \A k \in S : k <= j

PairApply(i, m) ==
    /\ token' = m.token
    /\ oldtoken' = m.oldtoken
    /\ username' = m.username
    /\ password' = m.password
    /\ login_response' = m.login_response
    /\ valid' = m.valid
    /\ cstack' = [cstack EXCEPT ![i] = m.stack]
    /\ cresult' = [cresult EXCEPT ![i] = m.result]
    /\ cnreq' = [cnreq EXCEPT ![i] = m.nreq]
    /\ clogin' = IF ResolvedLogins(m) = {} THEN clogin
                 ELSE [clogin EXCEPT
                          ![i] = m.settled[Last(ResolvedLogins(m))].out.v]
    /\ clast' = IF ResolvedLogins(m) = {} THEN clast
                ELSE m.settled[Last(ResolvedLogins(m))].out.v
    /\ cframe' = IF m.stack = <<>> /\ m.settled # <<>>
                 THEN [cframe EXCEPT ![i] = m.settled[Len(m.settled)].frame]
                 ELSE cframe
    /\ ccleared' = IF /\ Len(cstack[i]) = 1
                      /\ cstack[i][1].phase = "first"
                      /\ m.stack # <<>>
                      /\ m.stack[1].phase = "login"
                   THEN [ccleared EXCEPT
                            ![i] = m.token = Null /\ m.oldtoken = Null]
                   ELSE ccleared
    /\ cposts' = cposts + (IF m.sent.endpoint = "auth/login" THEN 1 ELSE 0)

\* the user makes one of the two calls
PairCall ==
    /\ \E i \in Pair :
          /\ cresult[i] = Idle
          /\ PairApply(i, Request([MachineOf(i) EXCEPT !.result = Pending],
                                  PairMethods[i], "players", NoData))
    /\ UNCHANGED <<stack, result, resp, sent, settled, nreq, ncalls, wire>>
    /\ UNCHANGED <<uvars, dvars>>

\* the response to the request one of the calls has in flight arrives
PairResponse ==
    /\ \E i \in Pair, r \in PairResponses :
          /\ cstack[i] # <<>>
          /\ (Top(MachineOf(i)).phase = "first" /\ IsExpiry(ParseResponse(r).v))
                => Len(cstack[i]) + 2 <= MaxStack
          /\ PairApply(i, OnResponse(MachineOf(i), r))
    /\ UNCHANGED <<stack, result, resp, sent, settled, nreq, ncalls, wire>>
    /\ UNCHANGED <<uvars, dvars>>

\* the request one of the calls has in flight fails at transport level
PairTransportError ==
    /\ \E i \in Pair :
          /\ cstack[i] # <<>>
          /\ PairApply(i, OnError(MachineOf(i), TransportFailure))
    /\ UNCHANGED <<stack, result, resp, sent, settled, nreq, ncalls, wire>>
    /\ UNCHANGED <<uvars, dvars>>

NextPair ==
    \/ PairCall
    \/ PairResponse
    \/ PairTransportError

SpecPair == Init /\ [][NextPair]_vars

(***************************************************************************)
(* Properties.                                                             *)
(***************************************************************************)
StackFrames == {stack[i] : i \in 1..Len(stack)}
SettledIdx == 1..Len(settled)

\* the last step handled a response, which settled the request it answers
Answered == resp # NoResponse /\ settled # <<>>

\* the value the 'end' handler holds for a body that is empty or JSON
BodyValue(r) == IF r.body.kind = "empty" THEN Str("") ELSE r.body.v

\* the object synthesized for a body that is not JSON
Synthesized(r) ==
    Obj([httpErrorCode |-> r.status, code |-> r.msg,
         description |-> r.body.raw])

\* C1: a call whose first response matches the expiry signature and whose
\* re-login succeeds performs exactly one re-login and sends the request
\* exactly once more; when the retried request fails in the same way (the
\* signature again, with a failure status) the call rejects with that
\* response without another re-login or retry.
C1_OneReloginOneRetry ==
    /\ \A f \in StackFrames :
          f.fn = "_request" =>
             /\ f.phase = "first" => f.relogins = 0 /\ f.sends = 1
             /\ f.phase = "login" =>
                   f.relogins = 1 /\ f.sends = 1 /\ IsExpiry(f.first)
             /\ f.phase = "retry" =>
                   f.relogins = 1 /\ f.sends = 2 /\ IsExpiry(f.first)
    /\ \A i \in SettledIdx :
          LET f == settled[i].frame
          IN  (f.fn = "_request" /\ f.phase = "retry") =>
                 /\ i = 1
                 /\ f.relogins = 1 /\ f.sends = 2 /\ IsExpiry(f.first)
                 /\ (resp.body = JsonBody(ExpiryObject) /\ resp.status >= 400)
                       => settled[i].out = Rejected(ExpiryObject)
    /\ \A i \in SettledIdx :
          LET f == settled[i].frame
          IN  /\ (f.fn = "_request" /\ f.phase = "login") =>
                    /\ i > 1
                    /\ f.relogins = 1 /\ f.sends = 1
                    /\ settled[i - 1].frame.fn = "login"
                    /\ settled[i - 1].out.kind = "rejected"
                    /\ settled[i].out = settled[i - 1].out
              /\ (f.fn = "login" /\ settled[i].out.kind = "resolved"
                     /\ stack # <<>>) =>
                    /\ i = Len(settled)
                    /\ stack[Len(stack)].phase = "retry"
                    /\ sent = [method |-> stack[Len(stack)].method,
                               endpoint |-> stack[Len(stack)].endpoint,
                               data |-> stack[Len(stack)].data,
                               hdr |-> token, by |-> "retry"]

C1_Witness ==
    /\ Answered
    /\ settled[1].frame.endpoint = "players"
    /\ settled[1].frame.phase = "retry"
    /\ settled[1].frame.first = ExpiryObject
    /\ resp.body = JsonBody(ExpiryObject)
    /\ resp.status = 401
    /\ result = Rejected(ExpiryObject)

\* C2: every call to the request executor settles after a bounded number
\* of transport requests, whatever the server answers: a get/post call
\* issues at most three (the request, the re-login's auth/login request
\* and the retry), also when auth/login itself is answered with the
\* expiry signature.
C2_BoundedRequests ==
    /\ (stack # <<>> /\ stack[1].fn = "_request") => nreq <= 3
    /\ Cardinality({i \in 1..Len(stack) :
                       stack[i].fn = "_request" /\ stack[i].phase = "login"})
          <= 1

\* C3: currentToken is non-null if and only if a login has succeeded and
\* neither a logout nor an expiry detection has happened since.
C3_TokenIffLoggedIn == (token # Null) <=> valid

\* C4: a response whose body is empty or valid JSON and that does not
\* match the expiry signature resolves the call with the parsed body when
\* the status is below 400 and rejects it with the parsed body when the
\* status is 400 or above; the call settles exactly once.
C4_StatusDecides ==
    (resp # NoResponse /\ resp.body.kind # "text"
        /\ ~IsExpiry(BodyValue(resp))) =>
       /\ settled # <<>>
       /\ settled[1].frame.fn = "_request"
       /\ settled[1].frame.phase \in {"first", "retry"}
       /\ resp.status < 400 => settled[1].out = Resolved(BodyValue(resp))
       /\ resp.status >= 400 => settled[1].out = Rejected(BodyValue(resp))
       /\ \A i \in SettledIdx :
             (i > 1 /\ settled[i].frame.fn = "_request") =>
                settled[i].frame.phase = "login"

C4_Witness ==
    /\ Answered
    /\ settled[1].frame.endpoint = "players"
    /\ resp.body = JsonBody(OtherErrorObject)
    /\ resp.status = 401
    /\ result = Rejected(OtherErrorObject)

C6_SettlesWithMapping ==
    /\ (Answered /\ resp.body.kind = "text") =>
          settled[1].out.v = Synthesized(resp)
    /\ \A i \in SettledIdx :
          LET f == settled[i].frame
          IN  (f.fn = "_request" /\ f.first.ty = "object"
                  /\ "description" \in DOMAIN f.first.f) =>
                 settled[i].out.v = f.first

\* C6 (amended): a body that is not JSON is never thrown; it is replaced
\* by the mapping of the original status, the original status message and
\* the raw body.  The call settles with that mapping, unless the mapping
\* is the first response and matches the expiry signature (status 401 with
\* status message NoUserLogon): then the call re-logs-in.
C6_NonJsonYieldsMapping ==
    (resp # NoResponse /\ resp.body.kind = "text") =>
       IF settled # <<>>
       THEN /\ settled[1].out.v.ty = "object"
            /\ settled[1].out.v.f.httpErrorCode = resp.status
            /\ settled[1].out.v.f.code = resp.msg
            /\ settled[1].out.v.f.description = resp.body.raw
       ELSE /\ resp.status = 401
            /\ resp.msg = "NoUserLogon"
            /\ stack[Len(stack) - 2].phase = "login"
            /\ stack[Len(stack) - 2].first = Synthesized(resp)
            /\ sent.endpoint = "auth/login"

C6_Witness ==
    /\ Answered
    /\ resp.body.kind = "text"
    /\ resp.status = 500
    /\ result.kind = "rejected"
    /\ result.v.ty = "object"
    /\ result.v.f.httpErrorCode = 500
    /\ result.v.f.description = "<html>"

\* the last step issued login's own auth/login request (line 453)
LoginPostIssued ==
    /\ sent.by = "first"
    /\ sent.endpoint = "auth/login"
    /\ Len(stack) >= 2
    /\ stack[Len(stack) - 1].fn = "login"

\* C7: at the moment login() issues its auth/login request, currentToken
\* and previousToken are both null and the request carries no token
\* header, whether no session existed or the logout succeeded or failed.
C7_TokensClearedAtLogin ==
    LoginPostIssued =>
       token = Null /\ oldtoken = Null /\ sent.hdr = Absent

\* C8: login() called while a token is held issues GET auth/logout with
\* parameter token = previousToken, and POST auth/login only once that
\* logout call has settled, whether it resolved or rejected; the outcome
\* of login() is that of the auth/login call alone.  Without a token no
\* logout request is issued.
C8_LogoutThenLogin ==
    /\ (sent.by = "first" /\ sent.endpoint = "auth/logout") =>
          /\ sent.method = "GET"
          /\ sent.data = Obj([token |-> oldtoken])
          /\ Truthy(token)
          /\ stack[Len(stack) - 1].fn = "login"
          /\ stack[Len(stack) - 1].hadToken
          /\ stack[Len(stack) - 1].phase = "logout"
    /\ \A i \in 1..Len(stack) :
          stack[i].fn = "login" =>
             /\ i < Len(stack)
             /\ stack[i].phase = "logout" =>
                   /\ stack[i].hadToken
                   /\ stack[i].logout = "none"
                   /\ stack[i + 1].endpoint = "auth/logout"
             /\ stack[i].phase = "post" =>
                   /\ stack[i + 1].endpoint = "auth/login"
                   /\ stack[i + 1].method = "POST"
                   /\ stack[i + 1].data = LoginData(stack[i].u, stack[i].p)
                   /\ stack[i].hadToken <=>
                         stack[i].logout \in {"resolved", "rejected"}
    /\ \A i \in SettledIdx :
          /\ (settled[i].frame.fn = "_request"
                 /\ settled[i].frame.endpoint = "auth/logout") =>
                /\ LoginPostIssued
                /\ stack[Len(stack) - 1].logout = settled[i].out.kind
          /\ settled[i].frame.fn = "login" =>
                /\ i > 1
                /\ settled[i].frame.phase = "post"
                /\ settled[i - 1].frame.endpoint = "auth/login"
                /\ settled[i - 1].out.kind = "rejected" =>
                      settled[i].out = settled[i - 1].out
                /\ settled[i].out.kind = "resolved" =>
                      settled[i].out = settled[i - 1].out

C8_Witness ==
    /\ LoginPostIssued
    /\ settled # <<>>
    /\ settled[1].frame.endpoint = "auth/logout"
    /\ settled[1].frame.phase = "first"
    /\ settled[1].out.kind = "rejected"
    /\ settled[1].frame.data = Obj([token |-> Str("o1")])
    /\ stack[1].logout = "rejected"

\* the step settled a login whose auth/login call reported HTTP success
LoginAnswered(i) ==
    /\ i > 1
    /\ settled[i].frame.fn = "login"
    /\ settled[i - 1].frame.endpoint = "auth/login"
    /\ settled[i - 1].out.kind = "resolved"

\* C9: when the auth/login call succeeds and its response contains the
\* configured token field, login() resolves with that response,
\* currentToken is that field's value, previousToken the value of the
\* response's token field, and login_response the resolved response.
C9_LoginSuccess ==
    \A i \in SettledIdx :
       (LoginAnswered(i) /\ HasField(settled[i - 1].out.v, TokenName)) =>
          LET v == settled[i - 1].out.v
          IN  /\ settled[i].out = Resolved(v)
              /\ token = v.f[TokenName]
              /\ oldtoken = (IF "token" \in DOMAIN v.f
                             THEN v.f.token ELSE Undefined)
              /\ login_response = v

C9_Witness ==
    /\ settled # <<>>
    /\ LoginAnswered(Len(settled))
    /\ result = Resolved(LoginObject1)
    /\ token = Str("t1")
    /\ oldtoken = Str("o1")
    /\ login_response = LoginObject1

\* C10: when the auth/login call reports HTTP success but its response
\* lacks the configured token field, login() rejects with a "No token
\* received" error, and currentToken and previousToken are null afterwards.
C10_NoTokenReceived ==
    \A i \in SettledIdx :
       (LoginAnswered(i) /\ ~HasField(settled[i - 1].out.v, TokenName)) =>
          /\ settled[i].out = Rejected(JsError("Error", "No token received!"))
          /\ token = Null
          /\ oldtoken = Null

\* the last step settled the user's login() call
UserLoginSettled ==
    /\ stack = <<>>
    /\ settled # <<>>
    /\ settled[Len(settled)].frame.fn = "login"

\* C11: whenever a login() call rejects, currentToken is null at the time
\* of the rejection, also when a valid session existed before the call.
C11_RejectedLoginClearsToken ==
    (UserLoginSettled /\ result.kind = "rejected") => token = Null

GenericTransportError ==
    /\ resp = NoResponse
    /\ settled # <<>>
    /\ settled[1].frame.fn = "_request"
    /\ settled[1].frame.endpoint = "players"

\* C13: a transport-level failure of a generic request, on the first
\* attempt or on the retry, rejects the call with the transport's own
\* error, triggers no re-login and no retry, and leaves currentToken,
\* previousToken, the stored credentials and login_response unchanged.
C13_TransportErrorRejects ==
    [][(stack # <<>> /\ resp' = NoResponse
           /\ stack[Len(stack)].endpoint = "players") =>
          /\ result' = Rejected(TransportFailure)
          /\ stack' = <<>>
          /\ sent' = NoRequest
          /\ nreq' = nreq
          /\ settled' = <<[frame |-> stack[Len(stack)],
                           out |-> Rejected(TransportFailure)]>>
          /\ token' = token
          /\ oldtoken' = oldtoken
          /\ username' = username
          /\ password' = password
          /\ login_response' = login_response]_vars

C13_Witness ==
    /\ GenericTransportError
    /\ settled[1].frame.phase = "retry"
    /\ result = Rejected(TransportFailure)
    /\ token = Str("t1")
    /\ login_response = LoginObject1

(***************************************************************************)
(* Properties of uploadStream.                                             *)
(***************************************************************************)
RECURSIVE SumTo(_, _)
\* the sum of the first n elements of a sequence of numbers
SumTo(seq, n) == IF n = 0 THEN 0 ELSE SumTo(seq, n - 1) + seq[n]

UploadRunning == uinit.kind = "resolved"
PartIdx == 1..Len(uparts)
DeleteIdx == 1..Len(udeletes)

\* C14: for a stream of known length N > 0, uploadStream issues the init
\* POST, then exactly one part PUT at offset 0 with content-length N, and
\* only after that PUT was answered with success one complete POST; it
\* resolves, with the init call's result, only after the complete call
\* succeeded.
C14_KnownLengthSequence ==
    usize > 0 =>
       /\ uinit.kind # "idle" => uresult.kind # "idle"
       /\ uinit.kind \in {"idle", "pending", "rejected"} =>
             uparts = <<>> /\ ucomplete.kind = "idle"
       /\ UploadRunning =>
             /\ Len(uparts) = 1
             /\ uparts[1].off = 0
             /\ uparts[1].len = usize
             /\ uparts[1].uuid = GetField(uinit.v, "uuid")
             /\ ucomplete.kind # "idle" <=>
                   (uparts[1].st = "answered" /\ uparts[1].status < 300)
       /\ uresult.kind = "resolved" =>
             /\ ucomplete.kind = "resolved"
             /\ uresult.v = uinit.v
             /\ usettle.by = "complete"
       /\ (ucomplete.kind = "resolved" /\ usettle.by = "complete") =>
             uresult = Resolved(uinit.v)

C14_Witness ==
    /\ usize = 2
    /\ uparts = <<[off |-> 0, len |-> 2, uuid |-> Str("u1"), hdr |-> Absent,
                   st |-> "answered", status |-> 200]>>
    /\ ucomplete.kind = "resolved"
    /\ uresult = Resolved(InitObject)

\* C15: for a stream of unknown length that emits the chunks c1..cn,
\* uploadStream issues exactly n part PUTs, the i-th at offset
\* len(c1) + ... + len(c(i-1)) with content-length len(ci); a stream that
\* emits no chunk issues no part PUT.
C15_ChunkOffsets ==
    usize = 0 =>
       /\ Len(uparts) = Len(uemitted)
       /\ \A i \in PartIdx :
             /\ uparts[i].off = SumTo(uemitted, i - 1)
             /\ uparts[i].len = uemitted[i]
             /\ uparts[i].uuid = GetField(uinit.v, "uuid")

C15_Witness ==
    /\ usize = 0
    /\ uemitted = <<2, 1>>
    /\ Len(uparts) = 2
    /\ uparts[1].off = 0 /\ uparts[1].len = 2
    /\ uparts[2].off = 2 /\ uparts[2].len = 1
    /\ uparts[1].st = "error"

\* the part requests answered with a failure status
FailedParts == {i \in PartIdx : uparts[i].st = "answered"
                                   /\ uparts[i].status >= 400}

\* C16: in both paths, whenever one or more part PUTs are answered with a
\* failure status, exactly one compensating DELETE media/{mediaId} is
\* issued, never none and never more than one, also when several chunks of
\* the same upload fail, and it is issued before the upload rejects.
C16_ExactlyOneDelete ==
    FailedParts # {} =>
       /\ Len(udeletes) = 1
       /\ udeletes[1].id = GetField(uinit.v, "mediaId")
       /\ uresult.kind = "rejected" => usettle.deletes = 1

\* the part requests that failed at transport level
BrokenParts == {i \in PartIdx : uparts[i].st = "error"}

\* C17: when a part PUT fails at transport level, uploadStream pauses
\* further reads from the source, issues the compensating DELETE, and only
\* then rejects.
C17_TransportErrorCleansUp ==
    \A i \in BrokenParts :
       /\ usrc # "flowing"
       /\ \E j \in DeleteIdx : udeletes[j].by = "parterror"
                                  /\ udeletes[j].i = i
       /\ (usettle.by = "parterror" /\ usettle.i = i) => usettle.deletes >= 1

\* the delete calls the source stream's 'error' handler issued
SourceErrorDeletes == {j \in DeleteIdx : udeletes[j].by = "error"}

\* C18: in the unknown-length path, when the source stream reports an
\* error, uploadStream issues the compensating DELETE and does not issue
\* the complete call; provided the delete succeeds, the upload is rejected
\* with the source stream's error.  (Stated here for the uploads none of
\* whose part requests fails at transport level.)
C18_SourceErrorRejects ==
    (usize = 0 /\ usrc = "errored" /\ BrokenParts = {}) =>
       /\ ucomplete.kind = "idle"
       /\ Cardinality(SourceErrorDeletes) = 1
       /\ \A j \in SourceErrorDeletes :
             /\ udeletes[j].id = GetField(uinit.v, "mediaId")
             /\ udeletes[j].out.kind = "resolved" =>
                   uresult = Rejected(SourceFailure)

\* C18 (amended): as C18, but the rejection carries the source stream's
\* error only if the promise was still pending when the delete succeeded;
\* otherwise it was rejected before, by the transport error of a part
\* request or by the handler of another delete call.
C18_SourceErrorRejectsIfPending ==
    (usize = 0 /\ usrc = "errored") =>
       /\ ucomplete.kind = "idle"
       /\ Cardinality(SourceErrorDeletes) = 1
       /\ \A j \in SourceErrorDeletes :
             /\ udeletes[j].id = GetField(uinit.v, "mediaId")
             /\ udeletes[j].err = SourceFailure
             /\ udeletes[j].out.kind = "resolved" =>
                   /\ uresult.kind = "rejected"
                   /\ usettle.by \in {"delete", "parterror"}
                   /\ (usettle.by = "delete" /\ usettle.i = j) =>
                         uresult = Rejected(SourceFailure)
             /\ (usettle.by = "delete" /\ usettle.i = j) =>
                   uresult = IF udeletes[j].out.kind = "resolved"
                             THEN Rejected(SourceFailure)
                             ELSE udeletes[j].out

C18_Witness ==
    /\ usize = 0
    /\ usrc = "errored"
    /\ Len(uemitted) = 2
    /\ \E j \in SourceErrorDeletes :
          /\ udeletes[j].out.kind = "resolved"
          /\ usettle.by = "delete" /\ usettle.i = j
    /\ uresult = Rejected(SourceFailure)

\* C19: once the init call has succeeded, every rejection of uploadStream
\* (a part PUT's failure status or transport error, a source stream error
\* in either path, a failure of the complete call) is preceded by a
\* compensating DELETE.
C19_DeleteBeforeEveryRejection ==
    (UploadRunning /\ uresult.kind = "rejected") => usettle.deletes >= 1

\* v is an Error whose code property is s
HasCode(v, s) == v.ty = "error" /\ "code" \in DOMAIN v /\ v.code = s

\* the delete calls the error handler of a part request issued
PartDeletes == {j \in DeleteIdx : udeletes[j].by = "part"}

\* C20: when a part PUT fails with status s, uploadStream rejects with an
\* error whose code is s if the compensating delete succeeds, and with the
\* delete's failure if the delete fails.
C20_RejectsWithStatus ==
    \A j \in PartDeletes :
       udeletes[j].out.kind # "pending" =>
          /\ uresult.kind = "rejected"
          /\ udeletes[j].out.kind = "resolved" =>
                HasCode(uresult.v, uparts[udeletes[j].i].status)
          /\ udeletes[j].out.kind = "rejected" =>
                uresult = udeletes[j].out

\* C20 (amended): as C20, provided the promise was still pending when the
\* delete call of the failed part settled; a promise settled before keeps
\* its outcome.
C20_RejectsWithStatusIfPending ==
    \A j \in PartDeletes :
       /\ uparts[udeletes[j].i].st = "answered"
       /\ udeletes[j].err.code = uparts[udeletes[j].i].status
       /\ udeletes[j].err.code >= 300
       /\ udeletes[j].out.kind # "pending" => uresult.kind # "pending"
       /\ (usettle.by = "delete" /\ usettle.i = j) =>
             /\ uresult.kind = "rejected"
             /\ udeletes[j].out.kind = "resolved" =>
                   HasCode(uresult.v, uparts[udeletes[j].i].status)
             /\ udeletes[j].out.kind = "rejected" =>
                   uresult = udeletes[j].out

C20_Witness ==
    /\ usize > 0
    /\ Len(uparts) = 1
    /\ uparts[1].status = 500
    /\ Len(udeletes) = 1
    /\ udeletes[1].out.kind = "resolved"
    /\ usettle.by = "delete"
    /\ uresult.kind = "rejected"
    /\ HasCode(uresult.v, 500)

\* the part requests not answered yet
PartsInFlight == {i \in PartIdx : uparts[i].st = "flight"}

\* C21: in the unknown-length path, part PUTs are issued in the order in
\* which the source emits chunks, and no two part PUTs of the same upload
\* are in flight together.
C21_OneChunkAtATime ==
    usize = 0 =>
       /\ \A i \in PartIdx : uparts[i].len = uemitted[i]
       /\ \A i, j \in PartIdx : i < j => uparts[i].off < uparts[j].off
       /\ Cardinality(PartsInFlight) <= 1

\* C21 (amended): in the unknown-length path, part PUTs are issued in the
\* order in which the source emits chunks, the i-th request carrying the
\* i-th chunk at an offset beyond those of all earlier requests, each at
\* its 'data' event without waiting for the answers to earlier ones.
C21_EmissionOrder ==
    usize = 0 =>
       /\ Len(uparts) = Len(uemitted)
       /\ uoffset = SumTo(uemitted, Len(uemitted))
       /\ \A i \in PartIdx : uparts[i].len = uemitted[i]
       /\ \A i, j \in PartIdx :
             i < j => uparts[i].off + uparts[i].len <= uparts[j].off

C21_Witness ==
    /\ usize = 0
    /\ uemitted = <<1, 2>>
    /\ PartsInFlight = {1, 2}
    /\ uparts[1].off = 0
    /\ uparts[2].off = 1

\* C30: in the unknown-length path, the complete call is issued only after
\* every part PUT of the upload has been answered with success, and
\* uploadStream never resolves for an upload in which some part PUT failed.
C30_CompleteAfterAllParts ==
    usize = 0 =>
       /\ ucomplete.kind # "idle" =>
             \A i \in PartIdx : uparts[i].st = "answered"
                                   /\ uparts[i].status < 300
       /\ uresult.kind = "resolved" =>
             \A i \in PartIdx : uparts[i].st \in {"flight", "answered"}
                                   /\ uparts[i].status < 300

\* the file name of a path ends in the extension ext
HasExtension(cmpath, ext) ==
    LET name == Basename(cmpath)
    IN  /\ Len(name) > Len(ext)
        /\ SubSeq(name, Len(name) - Len(ext) + 1, Len(name)) = ext

InitInFlight == uinit.kind = "pending"

\* C24: the upload type sent to init is a function of the caller's
\* uploadType and of the file name only: when uploadType is absent or is
\* "auto" after lowercasing, it is maint_item if the file name's extension
\* is one of .bat, .cmd, .py, .vbs, .exe, .zip and media_item for every
\* other file name; any other uploadType is passed through lowercased.
C24_UploadClassification ==
    InitInFlight =>
       LET t == uinitreq.upload_type
           posted == GetField(uinitreq.data, "uploadType").chars
           auto == t = Undefined \/ ToLowerCase(t.chars) = <<"a", "u", "t", "o">>
       IN  /\ (auto /\ \E e \in MaintExtensions : HasExtension(uinitreq.cmpath, e))
                 => posted = MaintItem
           /\ (auto /\ ~\E e \in MaintExtensions : HasExtension(uinitreq.cmpath, e))
                 => posted = MediaItem
           /\ ~auto => posted = ToLowerCase(t.chars)
           /\ GetField(uinitreq.data, "filename") = Text(Basename(uinitreq.cmpath))

C24_Witness ==
    /\ InitInFlight
    /\ uinitreq.cmpath = <<"d", "/", "a", ".", "e", "x", "e">>
    /\ uinitreq.upload_type = Text(<<"A", "u", "t", "o">>)
    /\ uinitreq.data = Obj([filename |-> Text(<<"a", ".", "e", "x", "e">>),
                            filepath |-> Text(<<"d">>),
                            uploadType |-> Text(MaintItem)])

\* C22: once the GET request of a download is answered, a status other than
\* 200 means the returned stream delivered no data and exactly one error,
\* whose code is that status; status 200 means the stream delivered the
\* chunks the response emitted and no error.
C22_DownloadStreamStatus ==
    (dcall # "none" /\ dreq = "answered") =>
       /\ dstatus # 200 =>
             /\ ddata = <<>>
             /\ Len(derrors) = 1
             /\ HasCode(derrors[1], dstatus)
       /\ dstatus = 200 =>
             /\ ddata = dbody
             /\ derrors = <<>>

C22_Witness ==
    /\ dcall = "stream"
    /\ dreq = "answered"
    /\ dstatus = 204
    /\ ddata = <<>>
    /\ derrors = <<[ty |-> "error", name |-> "Error",
                    message |-> "No Content", code |-> 204]>>

\* C23: download resolves only when the local write stream has closed after
\* every chunk of the relay was written to it; when the relay or the local
\* write stream reported an error the promise is rejected with that error,
\* and once the promise is rejected and no unlink is outstanding the local
\* file does not exist.
C23_DownloadCleansUp ==
    dcall = "file" =>
       /\ dresult.kind = "resolved" =>
             /\ df = "closed"
             /\ dres = "ended"
             /\ dwritten = dbody
       /\ (derrors # <<>> /\ df # "errored") => dresult = Rejected(derrors[1])
       /\ df = "errored" => dresult.kind = "rejected"
       /\ (dresult.kind = "rejected" /\ dunlink # "requested") => ~dfile

\* the _request frame whose request was issued at the end of the last step
Sender == stack[Len(stack)]

\* C25: every request _request issues, the first one and the one retried
\* after a re-login alike, is encoded by the class of its method and by the
\* presence of data alone: GET, HEAD and DELETE carry no body and their
\* path is the endpoint, followed by ? and the query string of data when
\* data is present; POST and PUT keep the endpoint as path and carry the
\* JSON text of data with a content-length equal to its length in bytes,
\* or no body and content-length 0 when there is no data.
C25_RequestEncoding ==
    sent.by \in {"first", "retry"} =>
       LET f == Sender
       IN  /\ wire.method = f.method
           /\ (f.method \in {"GET", "HEAD", "DELETE"}) =>
                 /\ wire.body = ""
                 /\ wire.path = IF Truthy(f.data)
                                THEN f.endpoint \o "?"
                                     \o Concat(QueryStringify(f.data))
                                ELSE f.endpoint
           /\ (f.method \in {"POST", "PUT"}) =>
                 /\ wire.path = f.endpoint
                 /\ Truthy(f.data) =>
                       /\ wire.body = Concat(JSONStringify(f.data))
                       /\ wire.clen = Num(ByteLength(JSONStringify(f.data)))
                 /\ ~Truthy(f.data) =>
                       /\ wire.body = ""
                       /\ wire.clen = Num(0)

\* a PUT retried after a re-login, with data whose JSON text is longer in
\* bytes than in characters
C25_Witness ==
    /\ sent.by = "retry"
    /\ wire.method = "PUT"
    /\ wire.path = "players"
    /\ wire.body = "{\"limit\":10,\"name\":\"" \o EAcute \o "\"}"
    /\ wire.clen = Num(24)

\* the response the re-login resolved with in the step that retried
ReloginResponse == settled[Len(settled)].out.v

\* C26: the request retried after an expiry has the method, the path with
\* its query string and the body of the request first sent, and its token
\* header is the token of the response the re-login resolved with, which is
\* neither absent nor null.
C26_RetrySameRequestNewToken ==
    sent.by = "retry" =>
       /\ wire.method = Sender.wired.method
       /\ wire.path = Sender.wired.path
       /\ wire.body = Sender.wired.body
       /\ wire.hdr = GetField(ReloginResponse, TokenName)
       /\ wire.hdr \notin {Absent, Undefined, Null}

\* the parsed response, or the object synthesized for a body that is not
\* JSON, has httpErrorCode 401 and code "NoUserLogon"
CarriesSignature(r) ==
    LET v == ParseResponse(r).v
    IN  /\ HasField(v, "httpErrorCode") /\ v.f.httpErrorCode = 401
        /\ HasField(v, "code") /\ v.f.code = "NoUserLogon"

\* a call of get/post/put/delete by the user awaits its first response
GenericCallPending ==
    /\ Len(stack) = 1
    /\ stack[1].fn = "_request"
    /\ stack[1].phase = "first"

\* C27: when the first response to a generic call of the user does not
\* carry both httpErrorCode 401 and code "NoUserLogon" (in its parsed body
\* or in the object synthesized for a body that is not JSON), the call
\* settles in that step, no request is issued (neither a login nor a
\* retry), and the tokens, the stored credentials and login_response stay
\* as they were.
C27_OnlySignatureTriggers ==
    [][(GenericCallPending /\ resp' # NoResponse /\ ~CarriesSignature(resp')) =>
          /\ stack' = <<>>
          /\ result'.kind \in {"resolved", "rejected"}
          /\ result'.v = ParseResponse(resp').v
          /\ sent' = NoRequest
          /\ nreq' = nreq
          /\ Len(settled') = 1
          /\ token' = token
          /\ oldtoken' = oldtoken
          /\ username' = username
          /\ password' = password
          /\ login_response' = login_response]_vars

\* a plain 401 with another code, answered to a call made in a session
C27_Witness ==
    /\ resp = [status |-> 401, msg |-> "OK", body |-> JsonBody(OtherErrorObject)]
    /\ stack = <<>>
    /\ Len(settled) = 1
    /\ settled[1].frame.endpoint = "players"
    /\ settled[1].frame.relogins = 0
    /\ result = Rejected(OtherErrorObject)
    /\ nreq = 1
    /\ token = Str("t1")
    /\ username = Str("u1")
    /\ login_response = LoginObject1

\* the last step rejected the user's generic call because its re-login
\* failed
ReloginFailed ==
    /\ stack = <<>>
    /\ Len(settled) >= 2
    /\ settled[Len(settled)].frame.fn = "_request"
    /\ settled[Len(settled)].frame.phase = "login"

\* C28: when a generic call detected the expiry and its re-login failed,
\* the request was sent once only, the call rejects with the error the
\* re-login rejected with, and currentToken and previousToken are null.
C28_FailedReloginRejects ==
    ReloginFailed =>
       LET n == Len(settled)
       IN  /\ settled[n].frame.sends = 1
           /\ settled[n - 1].frame.fn = "login"
           /\ settled[n - 1].out.kind = "rejected"
           /\ result = settled[n - 1].out
           /\ token = Null
           /\ oldtoken = Null

\* the user calls login() in this step
UserLoginCalled == stack = <<>> /\ stack' # <<>> /\ stack'[1].fn = "login"

\* C29: the stored credentials are those of the most recent login() call
\* of the user, whatever its outcome: they are set when the user calls
\* login() and change in no other step; every re-login triggered by an
\* expiry posts exactly the stored credentials to auth/login, and issues no
\* auth/logout request.
C29_ReloginCredentials ==
    [][/\ UserLoginCalled =>
             username' = stack'[1].u /\ password' = stack'[1].p
       /\ (username' # username \/ password' # password) => UserLoginCalled
       /\ \A i \in 2..Len(stack') :
             stack'[i].fn = "login" =>
                /\ stack'[i].u = username'
                /\ stack'[i].p = password'
                /\ ~stack'[i].hadToken
                /\ stack'[i].phase = "post"
                /\ stack'[i + 1].endpoint = "auth/login"
                /\ stack'[i + 1].data = LoginData(username', password')
       /\ sent'.endpoint = "auth/logout" =>
             Len(stack') = 2 /\ stack'[1].fn = "login"]_vars

\* login(u2, p2) was rejected for want of a token; the expiry detected by
\* the next call re-logs-in as (u2, p2)
C29_Witness ==
    /\ ncalls = 2
    /\ login_response = NoTokenObject
    /\ Len(stack) = 3
    /\ stack[1].endpoint = "players"
    /\ stack[1].phase = "login"
    /\ stack[2].fn = "login"
    /\ sent.by = "first"
    /\ sent.endpoint = "auth/login"
    /\ sent.data = LoginData(Str("u2"), Str("p2"))
    /\ wire.body = "{\"username\":\"u2\",\"password\":\"p2\"}"

\* the _request frame of call i, pending or as it settled
Outer(i) == IF cstack[i] # <<>> THEN cstack[i][1] ELSE cframe[i]

\* call i has detected the expiry
PairExpired(i) == cresult[i] # Idle /\ Outer(i).relogins >= 1

\* the re-logins of both calls have succeeded: both requests were retried
BothRetried == \A i \in Pair : PairExpired(i) /\ Outer(i).phase = "retry"

\* C31: of two generic calls that both receive the expiry signature, each
\* clears the tokens and performs its own re-login and its own single
\* retry: once both re-logins have succeeded, two auth/login requests have
\* been issued in all, each call has re-logged-in once and sent its request
\* twice, each retry carries the token of its own call's re-login, and
\* currentToken is non-null and is the token of the login response that was
\* processed last.
C31_ReloginNotShared ==
    /\ \A i \in Pair : PairExpired(i) => ccleared[i]
    /\ BothRetried =>
          /\ cposts = 2
          /\ \A i \in Pair :
                /\ Outer(i).relogins = 1
                /\ Outer(i).sends = 2
                /\ Outer(i).hdr = GetField(clogin[i], TokenName)
          /\ token # Null
          /\ token = GetField(clast, TokenName)

====
